---- MODULE Spec2Model ----
(* Model of battlesnake_tests (src/src/main.rs): a command line runner that  *)
(* walks a directory of fixture files, posts each fixture's game state to a  *)
(* Battlesnake service and compares the returned move with the fixture's     *)
(* expected moves.  One behaviour of the model is two invocations of the     *)
(* program, one after the other, on the same directory and service.          *)
EXTENDS Naturals, Sequences, FiniteSets

----------------------------------------------------------------------------
(* Bounds and input domains *)

MaxFixtures == 2

\* Option::None for the optional description.
None == "None"

\* Game states found in fixture files (opaque serde_json::Value payloads).
GameStates == {"s1", "s2"}

\* The `expected` lists fixture authors write: none, one or several labels.
ExpectedLists == {<<>>, <<"up">>, <<"up", "down">>}

\* Labels the service may answer with; "UP" differs from "up" only in case.
MoveLabels == {"up", "down", "UP"}

Descriptions == {None, "d"}

SeqsUpTo(S, n) == UNION {[1..k -> S] : k \in 0..n}

Range(s) == {s[i] : i \in 1..Len(s)}

\* What one glob entry can be: the walk fails on it (GlobError), the file
\* cannot be read, the file is not a TestCaseFile, or it deserializes.
TestCaseFile ==
  [kind : {"ok"}, state : GameStates,
   expected : ExpectedLists, description : Descriptions]

DirEntries ==
  {[kind |-> "globerr"], [kind |-> "unreadable"], [kind |-> "malformed"]}
    \cup TestCaseFile

\* What the service does with one request body.
BattlesnakeMoveResponse == [kind : {"move"}, move : MoveLabels]

Responses ==
  {[kind |-> "transport"], [kind |-> "http"], [kind |-> "decode"]}
    \cup BattlesnakeMoveResponse

----------------------------------------------------------------------------
(* State *)

VARIABLES
  dir,              \* the fixture tree, as the sequence of entries glob yields
  pattern_ok,       \* whether "<dir>/**/*.json" is a valid glob pattern
  service,          \* the service under test: request body -> what happens
  run,              \* "first" or "second" invocation of the program
  first,            \* what the first invocation ended with
  pc,               \* position in main
  idx,              \* number of entries the glob iterator has yielded
  path,             \* `path` of the current iteration (position in dir)
  test_case,        \* `test_case` of the current iteration
  x,                \* `x`, the value run_test returned
  results,          \* `results: Vec<TestRun>`
  successful_count,
  total_count,
  r,                \* position of the reporting loop in results
  out,              \* what was printed on stdout
  requests,         \* paths of the fixtures whose state was posted
  main_err,         \* the error main returned, or None
  exit_code         \* the process exit status once pc = "exited"

vars == <<dir, pattern_ok, service, run, first, pc, idx, path, test_case, x,
          results, successful_count, total_count, r, out, requests, main_err,
          exit_code>>

env == <<dir, pattern_ok, service>>

----------------------------------------------------------------------------
(* Values *)

\* TestResult (returned by run_test inside Ok) and anyhow errors inside Err.
OkCorrectMove == [ok |-> TRUE, tag |-> "CorrectMove"]
OkIncorrectMove(e, a) == [ok |-> TRUE, tag |-> "IncorrectMove", expected |-> e, actual |-> a]
ErrAnyhow(e) == [ok |-> FALSE, error |-> e]

\* TestRun.result : Result<(), TestFailure>
ResultOk == [tag |-> "Ok"]
FailureIncorrectMove(e, a) == [tag |-> "IncorrectMove", expected |-> e, actual |-> a]
FailureError(e) == [tag |-> "Error", error |-> e]

NoTestCase == [state |-> "", expected |-> <<>>, description |-> None, path |-> 0]
NoX == ErrAnyhow("")
NoFirst == [results |-> <<>>, out |-> <<>>, requests |-> <<>>, main_err |-> None,
            exit_code |-> 0, successful_count |-> 0, total_count |-> 0]

----------------------------------------------------------------------------
(* Pure functions *)

\* A label with its case folded.
Lower(s) == IF s = "UP" THEN "up" ELSE s

\* Contains, had it compared labels without regard to case.
RECURSIVE ContainsIgnoreCase(_, _)
ContainsIgnoreCase(v, s) ==
  IF v = <<>> THEN FALSE
  ELSE IF Lower(Head(v)) = Lower(s) THEN TRUE
  ELSE ContainsIgnoreCase(Tail(v), s)

\* Vec<String>::contains: a linear scan with String equality.
RECURSIVE Contains(_, _)
Contains(v, s) ==
  IF v = <<>> THEN FALSE
  ELSE IF Head(v) = s THEN TRUE
  ELSE Contains(Tail(v), s)

\* run_test, had it kept only the first expected label in IncorrectMove.
run_test_first_expected(tc, resp) ==
  IF resp.kind = "transport" THEN ErrAnyhow("transport")
  ELSE IF resp.kind = "http" THEN ErrAnyhow("http")
  ELSE IF resp.kind = "decode" THEN ErrAnyhow("decode")
  ELSE IF Contains(tc.expected, resp.move) THEN OkCorrectMove
  ELSE OkIncorrectMove(IF tc.expected = <<>> THEN <<>> ELSE <<Head(tc.expected)>>,
                       resp.move)

\* run_test: post the state, fail on the first `?` that fails, else classify.
run_test(tc, resp) ==
  IF resp.kind = "transport" THEN ErrAnyhow("transport")
  ELSE IF resp.kind = "http" THEN ErrAnyhow("http")
  ELSE IF resp.kind = "decode" THEN ErrAnyhow("decode")
  ELSE IF Contains(tc.expected, resp.move) THEN OkCorrectMove
  ELSE OkIncorrectMove(tc.expected, resp.move)

\* The match on x in main.
MatchResult(v) ==
  IF ~v.ok THEN FailureError(v.error)
  ELSE IF v.tag = "CorrectMove" THEN ResultOk
  ELSE FailureIncorrectMove(v.expected, v.actual)

is_ok(res) == res.tag = "Ok"
is_err(res) == res.tag # "Ok"

\* results.iter().filter(|x| x.result.is_ok()).count()
SuccessfulCount(rs) == Cardinality({i \in 1..Len(rs) : is_ok(rs[i].result)})

\* AnyFailure, had it looked for TestFailure::Error only.
AnyErrorOnly(rs) == \E i \in 1..Len(rs) : rs[i].result.tag = "Error"

\* AnyFailure, had it been written with all() in place of any().
AllFailed(rs) == \A i \in 1..Len(rs) : is_err(rs[i].result)

\* results.iter().any(|r| r.result.is_err())
AnyFailure(rs) == \E i \in 1..Len(rs) : is_err(rs[i].result)

\* expected.iter().map(|e| format!("\"{}\"", e)).collect().join(", ")
RECURSIVE JoinWrapped(_)
JoinWrapped(v) ==
  IF v = <<>> THEN <<>>
  ELSE IF Len(v) = 1 THEN <<"\"", v[1], "\"">>
  ELSE <<"\"", v[1], "\"", ", ">> \o JoinWrapped(Tail(v))

\* TestFailure::display_failure, as the pieces of the formatted string.
display_failure(f) ==
  IF f.tag = "IncorrectMove" THEN
    IF Len(f.expected) = 1 THEN
      <<"Should have moved ", f.expected[1], " but moved ", f.actual>>
    ELSE
      <<"Should have moved in one of [">> \o JoinWrapped(f.expected)
        \o <<"] but moved ", f.actual>>
  ELSE <<"Error ", f.error>>

SummaryLine(p, t) == [kind |-> "summary", passed |-> p, total |-> t]

FailureBlock(tr) ==
  [kind |-> "failure",
   path |-> tr.test_case.path,
   description |-> IF tr.test_case.description = None THEN <<>>
                   ELSE <<"Description: ", tr.test_case.description>>,
   reason |-> display_failure(tr.result)]

\* GlobNth, had the walk followed the directory's own order, which differs
\* from one invocation to the next.
GlobNthUnsorted(i) == IF run = "second" THEN Len(dir) + 1 - i ELSE i

\* The position in dir of the i-th entry the glob iterator yields: glob
\* yields paths in alphabetical order, the order dir is written in.
GlobNth(i) == i

----------------------------------------------------------------------------
(* Initial state *)

ProcessStart ==
  /\ pc = "glob"
  /\ idx = 0
  /\ path = 0
  /\ test_case = NoTestCase
  /\ x = NoX
  /\ results = <<>>
  /\ successful_count = 0
  /\ total_count = 0
  /\ r = 0
  /\ out = <<>>
  /\ requests = <<>>
  /\ main_err = None
  /\ exit_code = 0

Init ==
  /\ \/ pattern_ok = TRUE /\ dir \in SeqsUpTo(DirEntries, MaxFixtures)
     \/ pattern_ok = FALSE /\ dir = <<>>
  /\ service \in [GameStates -> Responses]
  /\ run = "first"
  /\ first = NoFirst
  /\ ProcessStart

----------------------------------------------------------------------------
(* Actions *)

\* main returns Err(e): nothing more is printed on stdout, exit status 1.
Abort(e) ==
  /\ pc' = "exited"
  /\ main_err' = e
  /\ exit_code' = 1

\* glob(&format!("{}/**/*.json", args.test_directory))?
Glob ==
  /\ pc = "glob"
  /\ IF pattern_ok
       THEN pc' = "iter" /\ UNCHANGED <<main_err, exit_code>>
       ELSE Abort("PatternError")
  /\ UNCHANGED <<env, run, first, idx, path, test_case, x, results,
                 successful_count, total_count, r, out, requests>>

\* The head of the for loop: the iterator is exhausted, or yields an entry
\* and `entry?` unwraps it.
NextEntry ==
  /\ pc = "iter"
  /\ IF idx = Len(dir)
       THEN /\ pc' = "summary"
            /\ UNCHANGED <<idx, path, main_err, exit_code>>
       ELSE IF dir[GlobNth(idx + 1)].kind = "globerr"
         THEN /\ Abort("GlobError")
              /\ idx' = idx + 1
              /\ UNCHANGED path
         ELSE /\ pc' = "load"
              /\ idx' = idx + 1
              /\ path' = GlobNth(idx + 1)
              /\ UNCHANGED <<main_err, exit_code>>
  /\ UNCHANGED <<env, run, first, test_case, x, results, successful_count,
                 total_count, r, out, requests>>

\* from_str(&read_to_string(&path)?)? and the construction of TestCase.
LoadFixture ==
  /\ pc = "load"
  /\ IF dir[path].kind = "unreadable"
       THEN Abort("io") /\ UNCHANGED test_case
       ELSE IF dir[path].kind = "malformed"
         THEN Abort("serde_json") /\ UNCHANGED test_case
         ELSE /\ test_case' = [state |-> dir[path].state,
                               expected |-> dir[path].expected,
                               description |-> dir[path].description,
                               path |-> path]
              /\ pc' = "run_test"
              /\ UNCHANGED <<main_err, exit_code>>
  /\ UNCHANGED <<env, run, first, idx, path, x, results, successful_count,
                 total_count, r, out, requests>>

\* let x = run_test(&test_case, &client, &args.url);
RunTest ==
  /\ pc = "run_test"
  /\ requests' = Append(requests, test_case.path)
  /\ x' = run_test(test_case, service[test_case.state])
  /\ pc' = "push"
  /\ UNCHANGED <<env, run, first, idx, path, test_case, results,
                 successful_count, total_count, r, out, main_err, exit_code>>

\* The match on x, and results.push(TestRun { test_case, result }).
PushResult ==
  /\ pc = "push"
  /\ results' = Append(results, [test_case |-> test_case, result |-> MatchResult(x)])
  /\ pc' = "iter"
  /\ UNCHANGED <<env, run, first, idx, path, test_case, x, successful_count,
                 total_count, r, out, requests, main_err, exit_code>>

\* successful_count, total_count and the summary println!.
Summarize ==
  /\ pc = "summary"
  /\ successful_count' = SuccessfulCount(results)
  /\ total_count' = Len(results)
  /\ out' = Append(out, SummaryLine(SuccessfulCount(results), Len(results)))
  /\ r' = 0
  /\ pc' = "report"
  /\ UNCHANGED <<env, run, first, idx, path, test_case, x, results, requests,
                 main_err, exit_code>>

\* One iteration of `for r in &results`, or its end.
Report ==
  /\ pc = "report"
  /\ IF r = Len(results)
       THEN pc' = "exit" /\ UNCHANGED <<r, out>>
       ELSE /\ r' = r + 1
            /\ out' = IF is_err(results[r + 1].result)
                        THEN Append(out, FailureBlock(results[r + 1]))
                        ELSE out
            /\ UNCHANGED pc
  /\ UNCHANGED <<env, run, first, idx, path, test_case, x, results,
                 successful_count, total_count, requests, main_err, exit_code>>

\* process::exit(1) if any result is an error, else Ok(()).
Exit ==
  /\ pc = "exit"
  /\ exit_code' = IF AnyFailure(results) THEN 1 ELSE 0
  /\ pc' = "exited"
  /\ UNCHANGED <<env, run, first, idx, path, test_case, x, results,
                 successful_count, total_count, r, out, requests, main_err>>

\* The program is started again on the same directory and service.
Rerun ==
  /\ pc = "exited"
  /\ run = "first"
  /\ run' = "second"
  /\ first' = [results |-> results, out |-> out, requests |-> requests,
               main_err |-> main_err, exit_code |-> exit_code,
               successful_count |-> successful_count, total_count |-> total_count]
  /\ pc' = "glob"
  /\ idx' = 0
  /\ path' = 0
  /\ test_case' = NoTestCase
  /\ x' = NoX
  /\ results' = <<>>
  /\ successful_count' = 0
  /\ total_count' = 0
  /\ r' = 0
  /\ out' = <<>>
  /\ requests' = <<>>
  /\ main_err' = None
  /\ exit_code' = 0
  /\ UNCHANGED env

Next ==
  \/ Glob
  \/ NextEntry
  \/ LoadFixture
  \/ RunTest
  \/ PushResult
  \/ Summarize
  \/ Report
  \/ Exit
  \/ Rerun

Spec == Init /\ [][Next]_vars

----------------------------------------------------------------------------
(* Properties *)

\* The walk itself never fails: every entry of the tree is a fixture file.
NoWalkError == \A i \in 1..Len(dir) : dir[i].kind # "globerr"

\* The classification a fixture file gets when it is looked at on its own.
AloneOutcome(e) ==
  IF e.kind # "ok" THEN "Error"
  ELSE IF service[e.state].kind # "move" THEN "Error"
  ELSE IF service[e.state].move \in Range(e.expected) THEN "Ok"
  ELSE "IncorrectMove"

\* The fixture file fails at some stage: load, transport, status or decode.
Fails(e) == e.kind # "ok" \/ service[e.state].kind # "move"

RunOver == pc = "exited" /\ pattern_ok /\ NoWalkError

\* C1: when the run is over, every fixture of the tree, those after a failing
\* one included, has an outcome in results, and the outcome of a fixture is the
\* one it gets on its own, whatever failures the other fixtures trigger.
C1_Isolation ==
  RunOver =>
    /\ Len(results) = Len(dir)
    /\ \A i \in 1..Len(results) :
         results[i].result.tag = AloneOutcome(dir[results[i].test_case.path])

\* C2: for every fixture whose request is answered with a move, the outcome is
\* Ok exactly when the move is one of the fixture's expected labels, compared
\* as exact strings; and an Ok outcome is recorded in no other case.
C2_CorrectIffMember ==
  \A i \in 1..Len(results) :
    LET tc == results[i].test_case
        resp == service[tc.state]
        member == resp.kind = "move" /\ resp.move \in Range(dir[tc.path].expected)
    IN /\ resp.kind = "move" => (is_ok(results[i].result) <=> member)
       /\ is_ok(results[i].result) => member

C2_Witness ==
  \E i, j \in 1..Len(results) :
    /\ is_ok(results[i].result)
    /\ Len(results[i].test_case.expected) = 2
    /\ service[results[i].test_case.state] = [kind |-> "move", move |-> "down"]
    /\ results[j].result.tag = "IncorrectMove"
    /\ results[j].result.actual = "UP"
    /\ "up" \in Range(results[j].test_case.expected)

\* C3: once the counts are computed, passed <= total, passed = total exactly
\* when every outcome is Ok, and the exit status is 0 exactly when
\* passed = total; a run that ends without the counts ends non-zero.
C3_CountsAndExit ==
  /\ (pc \in {"report", "exit", "exited"} /\ main_err = None) =>
       /\ total_count = Len(results)
       /\ successful_count <= total_count
       /\ successful_count = total_count
            <=> \A i \in 1..Len(results) : results[i].result = ResultOk
  /\ (pc = "exited" /\ main_err = None) =>
       (exit_code = 0 <=> successful_count = total_count)
  /\ (pc = "exited" /\ main_err # None) => exit_code # 0

C3_Witness ==
  /\ pc = "exited"
  /\ main_err = None
  /\ total_count = 2
  /\ successful_count = 1
  /\ exit_code = 1

\* C4: when the run is over, main has returned no error, and every fixture
\* that fails at some stage has an entry in results, under its own path, whose
\* outcome is Error.
C4_FailuresBecomeErrored ==
  RunOver =>
    /\ main_err = None
    /\ \A i \in 1..Len(dir) :
         Fails(dir[i]) =>
           \E j \in 1..Len(results) :
             /\ results[j].test_case.path = i
             /\ results[j].result.tag = "Error"

\* C5: for every fixture answered with a move that is not among its expected
\* labels, the outcome is IncorrectMove with the fixture's whole expected list
\* and the label the service returned.
C5_IncorrectKeepsExpected ==
  \A i \in 1..Len(results) :
    LET tc == results[i].test_case
        resp == service[tc.state]
    IN (resp.kind = "move" /\ resp.move \notin Range(dir[tc.path].expected)) =>
         results[i].result =
           FailureIncorrectMove(dir[tc.path].expected, resp.move)

C5_Witness ==
  \E i \in 1..Len(results) :
    /\ results[i].result.tag = "IncorrectMove"
    /\ results[i].result.expected = <<"up", "down">>
    /\ results[i].result.actual = "UP"

\* C6: no request is sent for a fixture whose expected list is empty, and such
\* a fixture never gets the outcome Ok or IncorrectMove.
C6_EmptyExpectedRejected ==
  /\ \A k \in 1..Len(requests) : dir[requests[k]].expected # <<>>
  /\ \A i \in 1..Len(results) :
       results[i].test_case.expected = <<>> => results[i].result.tag = "Error"

\* C7: a run over a tree without fixtures sends no request and ends with
\* total = 0, passed = 0, the summary line "0 out of 0" and exit status 0.
C7_EmptyDirectory ==
  (pattern_ok /\ dir = <<>>) =>
    /\ requests = <<>>
    /\ pc = "exited" =>
         /\ main_err = None
         /\ total_count = 0
         /\ successful_count = 0
         /\ out = <<SummaryLine(0, 0)>>
         /\ exit_code = 0

C7_Witness == pattern_ok /\ dir = <<>> /\ pc = "exited" /\ run = "first"

\* C8: a run that has started on the fixtures ends with the summary line
\* printed once, one failure block for each fixture of the tree whose outcome
\* is not Ok, and none for a fixture whose outcome is Ok.
C8_SummaryAndBlocks ==
  RunOver =>
    /\ Cardinality({k \in 1..Len(out) : out[k].kind = "summary"}) = 1
    /\ \A i \in 1..Len(dir) :
         Cardinality({k \in 1..Len(out) : out[k].kind = "failure" /\ out[k].path = i})
           = IF AloneOutcome(dir[i]) = "Ok" THEN 0 ELSE 1

\* C9: every fixture the walk has yielded is either the one being resolved,
\* with no entry in results yet, or has exactly one entry, at its own position
\* in discovery order; and when the run is over every fixture has its entry.
C9_ResolvedOnceInOrder ==
  NoWalkError =>
    /\ \A i \in 1..idx :
         IF i = idx /\ pc \in {"load", "run_test", "push"}
           THEN Len(results) = i - 1
           ELSE i <= Len(results) /\ results[i].test_case.path = i
    /\ Len(results) <= idx
    /\ RunOver => Len(results) = Len(dir)

====
